---------------------------- MODULE Spec2Model ----------------------------
(***************************************************************************)
(* Model of the Correlio computation core (backend/engine.py): monthly and *)
(* yearly returns, the display cap, the Pearson / overlap matrices, the    *)
(* year-end rolling correlation and the payload builder.                   *)
(*                                                                         *)
(* Representation                                                          *)
(*   asset    an index 1..NumAssets; the index order is the alphabetical   *)
(*            order of the asset names (the order pandas sorts them in)    *)
(*   date     <<year, month>>                                              *)
(*   real     an exact rational <<n, d>> in lowest terms with d > 0;       *)
(*            NaN (pandas' "undefined") is <<0, 0>>                        *)
(*   corr     a correlation sgn * sqrt(num / den), kept as <<sgn,num,den>>;*)
(*            NaN is <<0, 0, 0>>                                           *)
(*   frame    a sequence of records (long format), or a record             *)
(*            [index, columns, at] (wide format, after a pivot)            *)
(*   dict     a sequence of <<key, value>> pairs, in insertion order       *)
(***************************************************************************)
EXTENDS Integers, Sequences, FiniteSets, TLC

VARIABLES df_prices, inputs, out, pc

vars == <<df_prices, inputs, out, pc>>

(***************************************************************************)
(* Bounds of the model.                                                    *)
(***************************************************************************)
NumAssets == 2
MaxAssets == 3
FirstYear == 2019
NumYears == 2
MaxMonth == 2
MaxObs == 3
MaxRollObs == 4
MaxCapRows == 2
MaxTenths == 20
MaxPrice == 2
MaxWindow == 2
MaxRollWindow == 3
MaxDup == 1

\* rollingWindowMonths is at least 2 (ComputeRequest, Field(24, ge=2, le=120))
MinWindow == 2

Assets == 1..NumAssets
Years == FirstYear..(FirstYear + NumYears - 1)
Months == 1..MaxMonth
Prices == 1..MaxPrice
Windows == MinWindow..MaxWindow
RollWindows == MinWindow..MaxRollWindow
\* capPct: the smallest value the API accepts (ComputeRequest, ge=50.0), the
\* default, and a larger one
MinCapPct == 50
DefaultCapPct == 100
CapPcts == {MinCapPct, DefaultCapPct, 2 * DefaultCapPct}

(***************************************************************************)
(* Exact arithmetic.                                                       *)
(***************************************************************************)
Abs(x) == IF x < 0 THEN -x ELSE x

RECURSIVE Gcd(_, _)
Gcd(a, b) == IF b = 0 THEN a ELSE Gcd(b, a % b)

NaN == <<0, 0>>
IsNaN(x) == x[2] = 0

Rat(n, d) ==
  IF d = 0 THEN NaN
  ELSE LET g == Gcd(Abs(n), Abs(d))
           s == IF d < 0 THEN -1 ELSE 1
       IN <<(s * n) \div g, (s * d) \div g>>

Zero == <<0, 1>>
One == <<1, 1>>
RAdd(x, y) == IF IsNaN(x) \/ IsNaN(y) THEN NaN ELSE Rat(x[1] * y[2] + y[1] * x[2], x[2] * y[2])
RSub(x, y) == IF IsNaN(x) \/ IsNaN(y) THEN NaN ELSE Rat(x[1] * y[2] - y[1] * x[2], x[2] * y[2])
RMul(x, y) == IF IsNaN(x) \/ IsNaN(y) THEN NaN ELSE Rat(x[1] * y[1], x[2] * y[2])
RDiv(x, y) == IF IsNaN(x) \/ IsNaN(y) THEN NaN ELSE Rat(x[1] * y[2], x[2] * y[1])
RNeg(x) == IF IsNaN(x) THEN NaN ELSE <<-x[1], x[2]>>
\* comparisons with NaN are false, as in IEEE arithmetic
RLess(x, y) == ~IsNaN(x) /\ ~IsNaN(y) /\ x[1] * y[2] < y[1] * x[2]
REq(x, y) == ~IsNaN(x) /\ ~IsNaN(y) /\ x = y
RNe(x, y) == ~REq(x, y)

RECURSIVE RSum(_)
RSum(s) == IF s = <<>> THEN Zero ELSE RAdd(Head(s), RSum(Tail(s)))

(***************************************************************************)
(* Sequences and orders.                                                   *)
(***************************************************************************)
Range(s) == {s[i] : i \in 1..Len(s)}

PairLess(p, q) == p[1] < q[1] \/ (p[1] = q[1] /\ p[2] < q[2])

\* the elements of a finite set of pairs (or dates), ascending
RECURSIVE SortPairs(_)
SortPairs(S) ==
  IF S = {} THEN <<>>
  ELSE LET m == CHOOSE x \in S : \A y \in S : ~PairLess(y, x)
       IN <<m>> \o SortPairs(S \ {m})

RECURSIVE SortInts(_)
SortInts(S) ==
  IF S = {} THEN <<>>
  ELSE LET m == CHOOSE x \in S : \A y \in S : x <= y
       IN <<m>> \o SortInts(S \ {m})

(***************************************************************************)
(* compute_monthly_returns: groupby("asset")["price"].pct_change() and the *)
(* year of the date.                                                       *)
(***************************************************************************)
\* the row before row i within i's asset group, in row order; 0 when none
PrevInGroup(df, i) ==
  LET before == {j \in 1..(i - 1) : df[j].asset = df[i].asset}
  IN IF before = {} THEN 0 ELSE CHOOSE j \in before : \A k \in before : k <= j

pct_change(df, i) ==
  LET j == PrevInGroup(df, i)
  IN IF j = 0 THEN NaN ELSE RSub(Rat(df[i].price, df[j].price), One)

compute_monthly_returns(df) ==
  [i \in 1..Len(df) |->
     [asset |-> df[i].asset, date |-> df[i].date, price |-> df[i].price,
      monthly_return |-> pct_change(df, i), year |-> df[i].date[1]]]

(***************************************************************************)
(* compute_yearly_returns: (1 + r).prod() - 1 per (asset, year) group of   *)
(* the rows with a defined monthly return; groupby sorts the group keys.   *)
(***************************************************************************)
RECURSIVE CompoundFrom(_, _)
CompoundFrom(p, rs) ==
  IF rs = <<>> THEN p ELSE CompoundFrom(RMul(p, RAdd(One, Head(rs))), Tail(rs))

\* (summation instead of compounding)
CompoundSum(rs) == RSum(rs)

Compound(rs) == RSub(CompoundFrom(One, rs), One)

GroupReturns(tmp, key) ==
  LET g == SelectSeq(tmp, LAMBDA r : <<r.asset, r.year>> = key)
  IN [i \in 1..Len(g) |-> g[i].monthly_return]

compute_yearly_returns(df) ==
  LET tmp == SelectSeq(df, LAMBDA r : ~IsNaN(r.monthly_return))
      keys == SortPairs({<<tmp[i].asset, tmp[i].year>> : i \in 1..Len(tmp)})
  IN [k \in 1..Len(keys) |->
        [asset |-> keys[k][1], year |-> keys[k][2],
         yearly_return |-> Compound(GroupReturns(tmp, keys[k]))]]

(***************************************************************************)
(* cap_yearly_returns_for_display                                          *)
(***************************************************************************)
\* Series.clip(lower, upper)
clip(x, lower, upper) ==
  IF RLess(x, lower) THEN lower ELSE IF RLess(upper, x) THEN upper ELSE x

\* (clipped computed as |true_return| >= cap instead of by comparison)
cap_row_inclusive(r, cap_dec) ==
  LET t == r.yearly_return
      d == clip(r.yearly_return, RNeg(cap_dec), cap_dec)
  IN [asset |-> r.asset, year |-> r.year, yearly_return |-> r.yearly_return,
      true_return |-> t, disp_return |-> d,
      clipped |-> ~RLess(t, cap_dec) \/ ~RLess(RNeg(cap_dec), t)]

cap_row(r, cap_dec) ==
  LET t == r.yearly_return
      d == clip(r.yearly_return, RNeg(cap_dec), cap_dec)
  IN [asset |-> r.asset, year |-> r.year, yearly_return |-> r.yearly_return,
      true_return |-> t, disp_return |-> d, clipped |-> RNe(t, d)]

cap_yearly_returns_for_display(yr, cap_pct) ==
  LET cap_dec == Rat(cap_pct, 100)
  IN [i \in 1..Len(yr) |-> cap_row(yr[i], cap_dec)]

(***************************************************************************)
(* compute_yearly_wide: pivot(index="year", columns="asset",               *)
(* values="yearly_return").sort_index(); pivot sorts both axes and leaves  *)
(* a missing (year, asset) pair undefined.                                 *)
(***************************************************************************)
compute_yearly_wide(yr) ==
  LET idx == SortInts({yr[i].year : i \in 1..Len(yr)})
      cols == SortInts({yr[i].asset : i \in 1..Len(yr)})
      cell(y, a) ==
        LET hit == {i \in 1..Len(yr) : yr[i].year = y /\ yr[i].asset = a}
        IN IF hit = {} THEN NaN ELSE yr[CHOOSE i \in hit : TRUE].yearly_return
  IN [index |-> idx, columns |-> cols,
      at |-> [p \in Range(idx) \X Range(cols) |-> cell(p[1], p[2])]]

\* (the number of rows, shape[0], instead of the number of columns)
shape0(wide) == Len(wide.index)

\* DataFrame.shape[1]
shape1(wide) == Len(wide.columns)

(***************************************************************************)
(* Pearson correlation of two series of equal length: covariance over the  *)
(* product of the standard deviations, (n - 1) normalisation.  The value   *)
(* sgn * sqrt(num / den) is kept exactly; a zero variance gives NaN.       *)
(***************************************************************************)
CNaN == <<0, 0, 0>>
IsCNaN(c) == c[3] = 0

Sign(n) == IF n < 0 THEN -1 ELSE IF n > 0 THEN 1 ELSE 0

mean(xs) == RDiv(RSum(xs), <<Len(xs), 1>>)

cov(xs, ys) ==
  LET mx == mean(xs)
      my == mean(ys)
      prods == [i \in 1..Len(xs) |-> RMul(RSub(xs[i], mx), RSub(ys[i], my))]
  IN RDiv(RSum(prods), <<Len(xs) - 1, 1>>)

\* (covariance normalised by n, the variances by n - 1)
pearson_corr_mixed(xs, ys) ==
  LET cxy == RDiv(RMul(cov(xs, ys), <<Len(xs) - 1, 1>>), <<Len(xs), 1>>)
      vx == cov(xs, xs)
      vy == cov(ys, ys)
      vv == RMul(vx, vy)
  IN IF IsNaN(vv) \/ vv = Zero THEN CNaN
     ELSE LET q == RDiv(RMul(cxy, cxy), vv)
          IN <<Sign(cxy[1]), q[1], q[2]>>

pearson_corr(xs, ys) ==
  LET cxy == cov(xs, ys)
      vx == cov(xs, xs)
      vy == cov(ys, ys)
      vv == RMul(vx, vy)
  IN IF IsNaN(vv) \/ vv = Zero THEN CNaN
     ELSE LET q == RDiv(RMul(cxy, cxy), vv)
          IN <<Sign(cxy[1]), q[1], q[2]>>

\* DataFrame.corr(method="pearson", min_periods): pairwise-complete rows only
corr(wide, min_periods) ==
  LET cell(a, b) ==
        LET both == SelectSeq(wide.index,
                      LAMBDA y : ~IsNaN(wide.at[<<y, a>>]) /\ ~IsNaN(wide.at[<<y, b>>]))
            xs == [i \in 1..Len(both) |-> wide.at[<<both[i], a>>]]
            ys == [i \in 1..Len(both) |-> wide.at[<<both[i], b>>]]
        IN IF Len(both) < min_periods THEN CNaN ELSE pearson_corr(xs, ys)
  IN [index |-> wide.columns, columns |-> wide.columns,
      at |-> [p \in Range(wide.columns) \X Range(wide.columns) |-> cell(p[1], p[2])]]

(***************************************************************************)
(* pairwise_overlap_counts: m = wide.notna().astype(int); m.T.dot(m)       *)
(***************************************************************************)
notna_int(wide, y, a) == IF IsNaN(wide.at[<<y, a>>]) THEN 0 ELSE 1

RECURSIVE DotFrom(_, _, _, _)
DotFrom(wide, a, b, ys) ==
  IF ys = <<>> THEN 0
  ELSE notna_int(wide, Head(ys), a) * notna_int(wide, Head(ys), b)
         + DotFrom(wide, a, b, Tail(ys))

pairwise_overlap_counts(wide) ==
  [index |-> wide.columns, columns |-> wide.columns,
   at |-> [p \in Range(wide.columns) \X Range(wide.columns) |->
             <<DotFrom(wide, p[1], p[2], wide.index), 1>>]]

(***************************************************************************)
(* DataFrame.reindex(index=order, columns=order), round(6), astype(int),   *)
(* to_dict()                                                               *)
(***************************************************************************)
\* a label the frame does not have gets the fill value (NaN)
reindex(frame, order, fill) ==
  [index |-> order, columns |-> order,
   at |-> [p \in Range(order) \X Range(order) |->
             IF p[1] \in Range(frame.index) /\ p[2] \in Range(frame.columns)
             THEN frame.at[p] ELSE fill]]

IsSquare(n) == \E k \in 0..n : k * k = n
Sqrt(n) == CHOOSE k \in 0..n : k * k = n

\* round(6) of sgn * sqrt(num / den): a value with at most 6 decimals (and
\* NaN) is unchanged; any other value is replaced by its 6-decimal rounding,
\* recorded as exact = FALSE
round6(c) ==
  IF IsCNaN(c) THEN [v |-> c, exact |-> TRUE]
  ELSE [v |-> c,
        exact |-> IsSquare(c[2]) /\ IsSquare(c[3]) /\ 1000000 % Sqrt(c[3]) = 0]

\* DataFrame.to_dict(): {column -> {index -> value}}, keys in axis order
to_dict(frame) ==
  [c \in 1..Len(frame.columns) |->
     <<frame.columns[c],
       [r \in 1..Len(frame.index) |->
          <<frame.index[r], frame.at[<<frame.index[r], frame.columns[c]>>]>>]>>]

\* DataFrame.round(6), elementwise
round(frame) == [frame EXCEPT !.at = [p \in DOMAIN frame.at |-> round6(frame.at[p])]]

\* astype(int) cannot convert NaN
astype_int_fails(frame) ==
  \E p \in Range(frame.index) \X Range(frame.columns) : IsNaN(frame.at[p])

as_int(x) == x[1]
astype_int(frame) == [frame EXCEPT !.at = [p \in DOMAIN frame.at |-> as_int(frame.at[p])]]

(***************************************************************************)
(* compute_rolling_corr_year_end.  The result is [error, series]: error is *)
(* the exception the function raises ("" when it returns), series the      *)
(* year -> value series it returns, ascending by year.                     *)
(***************************************************************************)
\* DataFrame.pivot raises ValueError when an (index, column) pair repeats
pivot_has_duplicates(sel) ==
  \E i, j \in 1..Len(sel) :
     i # j /\ sel[i].date = sel[j].date /\ sel[i].asset = sel[j].asset

\* pivot(index="date", columns="asset", values="monthly_return").sort_index()
pivot_monthly(sel) ==
  LET idx == SortPairs({sel[i].date : i \in 1..Len(sel)})
      cols == SortInts({sel[i].asset : i \in 1..Len(sel)})
      cell(d, a) ==
        LET hit == {i \in 1..Len(sel) : sel[i].date = d /\ sel[i].asset = a}
        IN IF hit = {} THEN NaN ELSE sel[CHOOSE i \in hit : TRUE].monthly_return
  IN [index |-> idx, columns |-> cols,
      at |-> [p \in Range(idx) \X Range(cols) |-> cell(p[1], p[2])]]

\* monthly_wide[[asset_a, asset_b]].dropna(how="any"): the dates kept
aligned_dates(monthly_wide, asset_a, asset_b) ==
  SelectSeq(monthly_wide.index,
            LAMBDA d : ~IsNaN(monthly_wide.at[<<d, asset_a>>])
                       /\ ~IsNaN(monthly_wide.at[<<d, asset_b>>]))

\* s1.rolling(window, min_periods=window).corr(s2): the value at position i
rolling_corr_at(s1, s2, window, i) ==
  IF i < window THEN CNaN
  ELSE pearson_corr([k \in 1..window |-> s1[i - window + k]],
                    [k \in 1..window |-> s2[i - window + k]])

\* (groupby(...).first() instead of last())
groupby_year_first(rc) ==
  LET yrs == SortInts({rc[i].date[1] : i \in 1..Len(rc)})
      first(y) ==
        LET pos == {i \in 1..Len(rc) : rc[i].date[1] = y}
        IN rc[CHOOSE i \in pos : \A j \in pos : i <= j].value
  IN [k \in 1..Len(yrs) |-> [year |-> yrs[k], value |-> first(yrs[k])]]

\* rc.groupby(rc.index.year).last()
groupby_year_last(rc) ==
  LET yrs == SortInts({rc[i].date[1] : i \in 1..Len(rc)})
      last(y) ==
        LET pos == {i \in 1..Len(rc) : rc[i].date[1] = y}
        IN rc[CHOOSE i \in pos : \A j \in pos : j <= i].value
  IN [k \in 1..Len(yrs) |-> [year |-> yrs[k], value |-> last(yrs[k])]]

compute_rolling_corr_year_end(df_monthly, asset_a, asset_b, window_months) ==
  LET sel == SelectSeq(df_monthly, LAMBDA r : r.asset \in {asset_a, asset_b})
  IN IF pivot_has_duplicates(sel) THEN [error |-> "ValueError", series |-> <<>>]
     ELSE
     LET monthly_wide == pivot_monthly(sel)
     IN IF ~({asset_a, asset_b} \subseteq Range(monthly_wide.columns))
        THEN [error |-> "KeyError", series |-> <<>>]
        ELSE
        LET dates == aligned_dates(monthly_wide, asset_a, asset_b)
            s1 == [i \in 1..Len(dates) |-> monthly_wide.at[<<dates[i], asset_a>>]]
            s2 == [i \in 1..Len(dates) |-> monthly_wide.at[<<dates[i], asset_b>>]]
            all == [i \in 1..Len(dates) |->
                      [date |-> dates[i],
                       value |-> rolling_corr_at(s1, s2, window_months, i)]]
            rc == SelectSeq(all, LAMBDA e : ~IsCNaN(e.value))
        IN [error |-> "", series |-> groupby_year_last(rc)]

(***************************************************************************)
(* compute_payload.  An optional section is <<>> (None) or <<value>>.      *)
(***************************************************************************)
Raised(e) == [status |-> "raised", error |-> e]

\* (the upper bound of the range forgotten)
in_year_range_open(y, year_start, year_end) == y >= year_start

\* (the emptiness test forgotten)
rolling_section_keep_empty(rc) == <<rc>>

\* (x >= year_start) & (x <= year_end)
in_year_range(y, year_start, year_end) == y >= year_start /\ y <= year_end

\* rolling = None unless rc is not empty
rolling_section(rc) == IF rc # <<>> THEN <<rc>> ELSE <<>>

pearson_section(yearly_wide) ==
  IF shape1(yearly_wide) >= 2
  THEN LET order == yearly_wide.columns
       IN <<reindex(corr(yearly_wide, 2), order, CNaN)>>
  ELSE <<>>

overlap_section(yearly_wide) ==
  IF shape1(yearly_wide) >= 2
  THEN LET order == yearly_wide.columns
       IN <<reindex(pairwise_overlap_counts(yearly_wide), order, NaN)>>
  ELSE <<>>

\* sort_values(["asset", "year"]) of the display rows
RECURSIVE sort_rows(_)
sort_rows(S) ==
  IF S = {} THEN <<>>
  ELSE LET m == CHOOSE x \in S :
                  \A y \in S : ~PairLess(<<y.asset, y.year>>, <<x.asset, x.year>>)
       IN <<m>> \o sort_rows(S \ {m})

yearly_row(r) ==
  [asset |-> r.asset, year |-> r.year, true_return |-> r.true_return,
   disp_return |-> r.disp_return, clipped |-> r.clipped]

compute_payload(prices, assets, year_start, year_end, cap_pct, rolling_window_months) ==
  LET df_m == compute_monthly_returns(prices)
      df_m_sel == SelectSeq(df_m, LAMBDA r : r.asset \in Range(assets))
      yr == SelectSeq(compute_yearly_returns(df_m_sel),
                      LAMBDA r : in_year_range(r.year, year_start, year_end))
      yr_d == cap_yearly_returns_for_display(yr, cap_pct)
      yearly_wide == compute_yearly_wide(yr)
      pearson == pearson_section(yearly_wide)
      overlap == overlap_section(yearly_wide)
      rcall == IF Len(assets) = 2
               THEN compute_rolling_corr_year_end(df_m, assets[1], assets[2],
                                                  rolling_window_months)
               ELSE [error |-> "", series |-> <<>>]
      rc == SelectSeq(rcall.series,
                      LAMBDA e : in_year_range(e.year, year_start, year_end))
      rolling == IF Len(assets) = 2 THEN rolling_section(rc) ELSE <<>>
      sorted == sort_rows(Range(yr_d))
      yearly_rows == [i \in 1..Len(sorted) |-> yearly_row(sorted[i])]
  IN IF rcall.error # "" THEN Raised(rcall.error)
     ELSE IF overlap # <<>> /\ astype_int_fails(overlap[1]) THEN Raised("ValueError")
     ELSE [status |-> "ok",
           inputs |-> [assets |-> assets, yearRange |-> <<year_start, year_end>>,
                       capPct |-> cap_pct, rollingWindowMonths |-> rolling_window_months],
           yearlyReturns |-> yearly_rows,
           rollingCorrelation |-> rolling,
           pearsonMatrix |-> IF pearson = <<>> THEN <<>>
                             ELSE <<to_dict(round(pearson[1]))>>,
           overlapYears |-> IF overlap = <<>> THEN <<>>
                            ELSE <<to_dict(astype_int(overlap[1]))>>]

(***************************************************************************)
(* Cleaned price tables (what load_prices returns): rows with a date, an   *)
(* asset and a price, sorted by (asset, date).  A date may repeat within   *)
(* an asset: load_prices does not remove duplicates.                       *)
(***************************************************************************)
Dates == Years \X Months

Row(a, d, p) == [asset |-> a, date |-> d, price |-> p]

\* the series of one asset on distinct dates, n observations
PlainSeries(a, n) ==
  UNION {LET ds == SortPairs(S)
         IN {[i \in 1..n |-> Row(a, ds[i], ps[i])] : ps \in [1..n -> Prices]}
         : S \in {T \in SUBSET Dates : Cardinality(T) = n}}

\* series s with observation k repeated on its date, at price p
InsertAfter(s, k, r) ==
  [i \in 1..(Len(s) + 1) |-> IF i <= k THEN s[i] ELSE IF i = k + 1 THEN r ELSE s[i - 1]]

DupSeries(a, n) ==
  UNION {{InsertAfter(s, k, Row(a, s[k].date, p)) : k \in 1..Len(s), p \in Prices}
         : s \in PlainSeries(a, n - 1)}

\* the tables of assets a..NumAssets with at most dups repeated observations,
\* each asset with at most maxobs observations
RECURSIVE TablesFrom(_, _, _)
TablesFrom(a, dups, maxobs) ==
  IF a > NumAssets THEN {<<>>}
  ELSE UNION {{s \o t : s \in PlainSeries(a, n), t \in TablesFrom(a + 1, dups, maxobs)}
              : n \in 1..maxobs}
       \cup (IF dups = 0 THEN {}
             ELSE UNION {{s \o t : s \in DupSeries(a, n),
                                   t \in TablesFrom(a + 1, dups - 1, maxobs)}
                         : n \in 2..maxobs})

Tables == TablesFrom(1, MaxDup, MaxObs)

\* the tables the rolling correlation is checked on: longer series, no
\* repeated observation
RollingTables == TablesFrom(1, 0, MaxRollObs)

HasDuplicates(t) ==
  \E i, j \in 1..Len(t) : i # j /\ t[i].asset = t[j].asset /\ t[i].date = t[j].date

(***************************************************************************)
(* Requests: an ordered list of distinct assets, a year range (start may   *)
(* exceed end), a cap percentage and a window length.                      *)
(***************************************************************************)
\* an asset name the table has no row for may be requested
Unlisted == NumAssets + 1
Requestable == Assets \cup {Unlisted}

AssetLists ==
  {l \in UNION {[1..n -> Requestable] : n \in 1..MaxAssets} :
     \A i, j \in 1..Len(l) : i # j => l[i] # l[j]}

NoCall == [fn |-> "none"]

TypeOK == pc \in {"ready", "done"}

Init ==
  /\ df_prices \in Tables
  /\ inputs = NoCall
  /\ out = NoCall
  /\ pc = "ready"

call_compute_payload ==
  /\ pc = "ready"
  /\ \E assets \in AssetLists, year_start \in Years, year_end \in Years,
        cap_pct \in {MinCapPct}, w \in Windows :
       /\ inputs' = [fn |-> "compute_payload", assets |-> assets,
                     year_start |-> year_start, year_end |-> year_end,
                     cap_pct |-> cap_pct, rolling_window_months |-> w]
       /\ out' = compute_payload(df_prices, assets, year_start, year_end, cap_pct, w)
  /\ pc' = "done"
  /\ UNCHANGED df_prices

Next == call_compute_payload

Spec == Init /\ [][Next]_vars

(***************************************************************************)
(* The rolling correlation on its own: compute_rolling_corr_year_end on    *)
(* the monthly returns of a table, for two distinct asset names.           *)
(***************************************************************************)
InitRolling ==
  /\ df_prices \in RollingTables
  /\ inputs = NoCall
  /\ out = NoCall
  /\ pc = "ready"

call_compute_rolling_corr_year_end ==
  /\ pc = "ready"
  /\ \E asset_a \in Requestable, asset_b \in Requestable, w \in RollWindows :
       /\ asset_a # asset_b
       /\ inputs' = [fn |-> "compute_rolling_corr_year_end", asset_a |-> asset_a,
                     asset_b |-> asset_b, window_months |-> w]
       /\ out' = compute_rolling_corr_year_end(compute_monthly_returns(df_prices),
                                               asset_a, asset_b, w)
  /\ pc' = "done"
  /\ UNCHANGED df_prices

NextRolling == call_compute_rolling_corr_year_end

SpecRolling == InitRolling /\ [][NextRolling]_vars

(***************************************************************************)
(* The display cap on its own: cap_yearly_returns_for_display on a frame   *)
(* of yearly returns (multiples of 1/10) of one asset.                     *)
(***************************************************************************)
Tenths == {Rat(n, 10) : n \in (-MaxTenths)..MaxTenths}

YearlyFrames ==
  UNION {{[i \in 1..n |-> [asset |-> 1, year |-> FirstYear + i - 1, yearly_return |-> rs[i]]]
          : rs \in [1..n -> Tenths]} : n \in 0..MaxCapRows}

InitCap ==
  /\ df_prices = <<>>
  /\ inputs = NoCall
  /\ out = NoCall
  /\ pc = "ready"

call_cap_yearly_returns_for_display ==
  /\ pc = "ready"
  /\ \E yr \in YearlyFrames, cap_pct \in CapPcts :
       /\ inputs' = [fn |-> "cap_yearly_returns_for_display", yr |-> yr,
                     cap_pct |-> cap_pct]
       /\ out' = cap_yearly_returns_for_display(yr, cap_pct)
  /\ pc' = "done"
  /\ UNCHANGED df_prices

NextCap == call_cap_yearly_returns_for_display

SpecCap == InitCap /\ [][NextCap]_vars

(***************************************************************************)
(* What the properties below read: the call made, its result, and the      *)
(* price table itself (prices and dates, not the model's operators).       *)
(***************************************************************************)
CalledPayload == pc = "done" /\ inputs.fn = "compute_payload"
Returned == CalledPayload /\ out.status = "ok"

RequestedYears == {y \in Years : inputs.year_start <= y /\ y <= inputs.year_end}

Keys(dict) == [i \in 1..Len(dict) |-> dict[i][1]]
Get(dict, k) == (CHOOSE e \in Range(dict) : e[1] = k)[2]

\* row i is the first observation of its asset
IsFirstObs(i) == \A j \in 1..(i - 1) : df_prices[j].asset # df_prices[i].asset

\* the rows of asset a dated in year y that have a preceding observation
ReturnRows(a, y) ==
  {i \in 1..Len(df_prices) :
     df_prices[i].asset = a /\ df_prices[i].date[1] = y /\ ~IsFirstObs(i)}

MinOf(S) == CHOOSE x \in S : \A z \in S : x <= z
MaxOf(S) == CHOOSE x \in S : \A z \in S : z <= x

HasYearlyInRange(a) == \E y \in RequestedYears : ReturnRows(a, y) # {}
OverlapInRange(a, b) ==
  Cardinality({y \in RequestedYears : ReturnRows(a, y) # {} /\ ReturnRows(b, y) # {}})

PayloadRows(a, y) ==
  {k \in 1..Len(out.yearlyReturns) :
     out.yearlyReturns[k].asset = a /\ out.yearlyReturns[k].year = y}

\* C5: for a requested asset a and a year y of the requested range, the
\* payload has a yearlyReturns row for (a, y) exactly when a has a defined
\* monthly return dated in y, and its true_return t satisfies
\* 1 + t = (last price of a in y) / (price of the observation preceding a's
\* first return of y), the product of the (1 + r) of the year's returns.
C5_YearlyReturnsCompound ==
  Returned =>
    \A a \in Range(inputs.assets), y \in RequestedYears :
      /\ PayloadRows(a, y) # {} <=> ReturnRows(a, y) # {}
      /\ \A k \in PayloadRows(a, y) :
           LET t == out.yearlyReturns[k].true_return
               lo == MinOf(ReturnRows(a, y))
               hi == MaxOf(ReturnRows(a, y))
           IN /\ t[2] > 0
              /\ (t[1] + t[2]) * df_prices[lo - 1].price = df_prices[hi].price * t[2]

\* a payload row compounding two returns of one year, the first of them
\* against an observation of the year before, with a non-zero result
C5_Witness ==
  /\ Returned
  /\ \E a \in Range(inputs.assets), y \in RequestedYears :
       /\ Cardinality(ReturnRows(a, y)) >= 2
       /\ df_prices[MinOf(ReturnRows(a, y)) - 1].date[1] < y
       /\ \E k \in PayloadRows(a, y) : out.yearlyReturns[k].true_return[1] # 0

\* C7: yearlyReturns is sorted ascending by (asset, year) with at most one
\* row per (asset, year), and holds only rows of requested assets and of
\* years in the requested range.
C7_RowsSortedUniqueSelected ==
  Returned =>
    /\ \A k \in 1..(Len(out.yearlyReturns) - 1) :
         PairLess(<<out.yearlyReturns[k].asset, out.yearlyReturns[k].year>>,
                  <<out.yearlyReturns[k + 1].asset, out.yearlyReturns[k + 1].year>>)
    /\ \A k \in 1..Len(out.yearlyReturns) :
         /\ out.yearlyReturns[k].asset \in Range(inputs.assets)
         /\ out.yearlyReturns[k].year \in RequestedYears

\* rows of two assets requested in descending order, while the table also
\* has a return outside the requested range
C7_Witness ==
  /\ Returned
  /\ inputs.assets = <<2, 1>>
  /\ {out.yearlyReturns[k].asset : k \in 1..Len(out.yearlyReturns)} = {1, 2}
  /\ Len(out.yearlyReturns) >= 2
  /\ \E y \in Years \ RequestedYears : ReturnRows(1, y) # {}

(***************************************************************************)
(* Matrices.                                                               *)
(***************************************************************************)
BothNull == out.pearsonMatrix = <<>> /\ out.overlapYears = <<>>
BothPresent == out.pearsonMatrix # <<>> /\ out.overlapYears # <<>>

\* the requested assets that are keys of the axis, in the caller's order
InCallerOrder(keys) == SelectSeq(inputs.assets, LAMBDA a : a \in Range(keys)) = keys

AxesInCallerOrder(matrix) ==
  /\ InCallerOrder(Keys(matrix))
  /\ \A c \in 1..Len(matrix) : InCallerOrder(Keys(matrix[c][2]))

\* C1: when the payload has both matrices, the keys of both axes of each
\* matrix appear in the order of the caller-supplied assets list.
C1_AxesInCallerOrder ==
  (Returned /\ BothPresent) =>
    /\ AxesInCallerOrder(out.pearsonMatrix[1])
    /\ AxesInCallerOrder(out.overlapYears[1])

PearsonCell(a, b) == Get(Get(out.pearsonMatrix[1], a), b)
Undefined(cell) == IsCNaN(cell.v)
ExactlyOne(cell) == cell = [v |-> <<1, 1, 1>>, exact |-> TRUE]

TwoAssetsFewOverlaps ==
  /\ Len(inputs.assets) = 2
  /\ OverlapInRange(inputs.assets[1], inputs.assets[2]) < 2

\* C2 as stated: one requested asset gives null matrices; two requested
\* assets with fewer than 2 overlapping years (one of them possibly without
\* any yearly return in range) give both matrices, the pair's cell undefined.
C2_Original ==
  Returned =>
    /\ Len(inputs.assets) = 1 => BothNull
    /\ TwoAssetsFewOverlaps =>
         /\ BothPresent
         /\ Undefined(PearsonCell(inputs.assets[1], inputs.assets[2]))

\* C2 as amended: one requested asset gives null matrices; for two requested
\* assets the matrices are present exactly when each of the two has a yearly
\* return in range (null otherwise), and when they are present and the two
\* have fewer than 2 overlapping years the pair's cells are undefined.
C2_MatricesFollowWideColumns ==
  Returned =>
    /\ Len(inputs.assets) = 1 => BothNull
    /\ Len(inputs.assets) = 2 =>
         LET a == inputs.assets[1]
             b == inputs.assets[2]
         IN IF HasYearlyInRange(a) /\ HasYearlyInRange(b)
            THEN /\ BothPresent
                 /\ OverlapInRange(a, b) < 2 =>
                      Undefined(PearsonCell(a, b)) /\ Undefined(PearsonCell(b, a))
            ELSE BothNull

\* two requested assets with one overlapping year: matrices present
C2_Witness ==
  /\ Returned
  /\ Len(inputs.assets) = 2
  /\ HasYearlyInRange(inputs.assets[1]) /\ HasYearlyInRange(inputs.assets[2])
  /\ OverlapInRange(inputs.assets[1], inputs.assets[2]) = 1
  /\ BothPresent

\* C3: with year_start > year_end the call returns, yearlyReturns is empty
\* and rollingCorrelation, pearsonMatrix and overlapYears are null.
C3_EmptyWhenRangeReversed ==
  (CalledPayload /\ inputs.year_start > inputs.year_end) =>
    /\ out.status = "ok"
    /\ out.yearlyReturns = <<>>
    /\ out.rollingCorrelation = <<>>
    /\ BothNull

\* the true yearly returns of asset a in the payload
PayloadReturns(a) ==
  {out.yearlyReturns[k].true_return :
     k \in {j \in 1..Len(out.yearlyReturns) : out.yearlyReturns[j].asset = a}}
PayloadYears(a) ==
  {out.yearlyReturns[k].year :
     k \in {j \in 1..Len(out.yearlyReturns) : out.yearlyReturns[j].asset = a}}

\* C8 as stated: every asset on the Pearson axes with at least 2 yearly
\* returns in range has diagonal cell 1.
C8_Original ==
  (Returned /\ out.pearsonMatrix # <<>>) =>
    \A a \in Range(Keys(out.pearsonMatrix[1])) :
      Cardinality(PayloadYears(a)) >= 2 => ExactlyOne(PearsonCell(a, a))

\* C8 as amended: for an asset on the Pearson axes with at least 2 yearly
\* returns in range, the diagonal cell is 1 when those returns are not all
\* equal and undefined when they are all equal (zero variance).
C8_DiagonalOneUnlessConstant ==
  (Returned /\ out.pearsonMatrix # <<>>) =>
    \A a \in Range(Keys(out.pearsonMatrix[1])) :
      Cardinality(PayloadYears(a)) >= 2 =>
        IF Cardinality(PayloadReturns(a)) = 1
        THEN Undefined(PearsonCell(a, a))
        ELSE ExactlyOne(PearsonCell(a, a))

\* a matrix with a varying asset (diagonal 1) and a constant one
C8_Witness ==
  /\ Returned
  /\ out.pearsonMatrix # <<>>
  /\ \E a, b \in Range(Keys(out.pearsonMatrix[1])) :
       /\ Cardinality(PayloadYears(a)) >= 2 /\ Cardinality(PayloadReturns(a)) >= 2
       /\ ExactlyOne(PearsonCell(a, a))
       /\ Cardinality(PayloadYears(b)) >= 2 /\ Cardinality(PayloadReturns(b)) = 1

\* C10: a table with two rows of the same (asset, date) is tolerated: for
\* every asset selection compute_payload returns a payload.
C10_DuplicatesTolerated ==
  (CalledPayload /\ HasDuplicates(df_prices)) => out.status = "ok"

(***************************************************************************)
(* Rolling correlation, read from the price table: the aligned dates, the  *)
(* windows of w consecutive aligned dates, and the correlation of a window *)
(* by the sums formula                                                     *)
(*   r = (n Sxy - Sx Sy) / sqrt((n Sxx - Sx^2) (n Syy - Sy^2)).            *)
(***************************************************************************)
\* the dates on which asset a has a defined monthly return
ReturnDates(a) ==
  {df_prices[i].date : i \in {j \in 1..Len(df_prices) :
                                df_prices[j].asset = a /\ ~IsFirstObs(j)}}

Aligned(a, b) == SortPairs(ReturnDates(a) \cap ReturnDates(b))

\* price over preceding price of asset a at date d (1 + monthly return)
Gross(a, d) ==
  LET i == CHOOSE j \in 1..Len(df_prices) :
             df_prices[j].asset = a /\ df_prices[j].date = d /\ ~IsFirstObs(j)
  IN Rat(df_prices[i].price, df_prices[i - 1].price)

RECURSIVE SumOver(_, _)
SumOver(f, n) == IF n = 0 THEN Zero ELSE RAdd(f[n], SumOver(f, n - 1))

\* the correlation of the window of w aligned dates ending at position i
WindowCorr(a, b, w, i) ==
  LET al == Aligned(a, b)
      x == [k \in 1..w |-> Gross(a, al[i - w + k])]
      y == [k \in 1..w |-> Gross(b, al[i - w + k])]
      n == <<w, 1>>
      Sx == SumOver(x, w)
      Sy == SumOver(y, w)
      Sxy == SumOver([k \in 1..w |-> RMul(x[k], y[k])], w)
      Sxx == SumOver([k \in 1..w |-> RMul(x[k], x[k])], w)
      Syy == SumOver([k \in 1..w |-> RMul(y[k], y[k])], w)
      top == RSub(RMul(n, Sxy), RMul(Sx, Sy))
      dx == RSub(RMul(n, Sxx), RMul(Sx, Sx))
      dy == RSub(RMul(n, Syy), RMul(Sy, Sy))
  IN IF dx = Zero \/ dy = Zero THEN CNaN
     ELSE LET q == RDiv(RMul(top, top), RMul(dx, dy))
          IN <<Sign(top[1]), q[1], q[2]>>

\* the positions that end a full window, and those whose window has a
\* defined correlation
FullWindows(a, b, w) == w..Len(Aligned(a, b))
DefinedWindows(a, b, w) == {i \in FullWindows(a, b, w) : ~IsCNaN(WindowCorr(a, b, w, i))}
YearAt(a, b, i) == Aligned(a, b)[i][1]

\* C4: rollingCorrelation is a non-empty list exactly when two assets are
\* requested and a year-end rolling value (a defined full-window value) has
\* its year in the requested range; otherwise it is null; it is never an
\* empty list.
C4_RollingNullOrNonEmpty ==
  Returned =>
    LET two == Len(inputs.assets) = 2
        a == inputs.assets[1]
        b == inputs.assets[2]
        w == inputs.rolling_window_months
    IN /\ out.rollingCorrelation # <<>> <=>
            (two /\ \E i \in DefinedWindows(a, b, w) : YearAt(a, b, i) \in RequestedYears)
       /\ out.rollingCorrelation # <<>> => out.rollingCorrelation[1] # <<>>

\* a rolling list is returned
C4_Witness ==
  /\ Returned
  /\ out.rollingCorrelation # <<>>
  /\ Len(out.rollingCorrelation[1]) >= 1

CalledRolling == pc = "done" /\ inputs.fn = "compute_rolling_corr_year_end"
RollingReturned == CalledRolling /\ out.error = ""

SeriesYears == {out.series[k].year : k \in 1..Len(out.series)}

RollingShape(a, b, w) ==
  /\ \A k \in 1..(Len(out.series) - 1) : out.series[k].year < out.series[k + 1].year
  /\ Len(out.series) <= Cardinality({YearAt(a, b, i) : i \in 1..Len(Aligned(a, b))})
  /\ \A k \in 1..Len(out.series) :
       \E i \in FullWindows(a, b, w) : YearAt(a, b, i) = out.series[k].year

CalledCap == pc = "done" /\ inputs.fn = "cap_yearly_returns_for_display"

\* C6: every row keeps true_return equal to the uncapped yearly return n/d,
\* gets disp_return = true_return clamped to [-cap_pct/100, +cap_pct/100],
\* and clipped is true exactly when disp_return differs from true_return; a
\* return exactly at +cap or -cap is not clipped; 1.80 with capPct = 100
\* gives disp_return 1.0 and clipped true.
C6_ClampAndFlag ==
  CalledCap =>
    /\ Len(out) = Len(inputs.yr)
    /\ \A i \in 1..Len(out) :
         LET n == inputs.yr[i].yearly_return[1]
             d == inputs.yr[i].yearly_return[2]
             c == inputs.cap_pct
             disp == out[i].disp_return
         IN /\ out[i].true_return = inputs.yr[i].yearly_return
            /\ disp[2] > 0
            /\ 100 * n > c * d => 100 * disp[1] = c * disp[2]
            /\ 100 * n < -(c * d) => 100 * disp[1] = -(c * disp[2])
            /\ (-(c * d) <= 100 * n /\ 100 * n <= c * d) => disp = <<n, d>>
            /\ out[i].clipped <=> disp # out[i].true_return
            /\ out[i].clipped <=> (100 * n > c * d \/ 100 * n < -(c * d))
            /\ (<<n, d>> = <<9, 5>> /\ c = 100) => (disp = <<1, 1>> /\ out[i].clipped)

\* a frame with 1.80 and exactly 1.0 capped at 100: the first is clipped to
\* 1.0, the second is at the boundary and not clipped
C6_Witness ==
  /\ CalledCap
  /\ inputs.cap_pct = 100
  /\ Len(out) = 2
  /\ out[1].true_return = <<9, 5>> /\ out[1].disp_return = <<1, 1>> /\ out[1].clipped
  /\ out[2].true_return = <<1, 1>> /\ out[2].disp_return = <<1, 1>> /\ ~out[2].clipped

=============================================================================
